---- MODULE Spec2Model ----
(***************************************************************************)
(* HostReactor (clients/naming_client/host_reator.go): the client-side     *)
(* cache of service snapshots, its on-demand fetch under a global mutex,   *)
(* its background refresh loop with a counting semaphore, and the update   *)
(* pipeline ProcessServiceJson shared by all three sources of payloads     *)
(* (on-demand fetch, scheduled fetch, push).                               *)
(*                                                                         *)
(* Every goroutine is a thread with a program counter; one action is one   *)
(* atomic access to shared state (a ConcurrentMap Get or Set, a Lock or    *)
(* Unlock, a semaphore Acquire or Release, a read of the clock) together   *)
(* with the thread-local computation that follows it.                      *)
(***************************************************************************)
EXTENDS Integers, Sequences, FiniteSets, TLC

VARIABLES
    args,                 \* the arguments NewHostReactor was called with
    updateThreadNum,      \* hr.updateThreadNum
    updateCacheWhenEmpty, \* hr.updateCacheWhenEmpty
    serviceInfoMap,       \* hr.serviceInfoMap: cache key -> model.Service
    updateTimeMap,        \* hr.updateTimeMap: cache key -> uint64 millis
    lock,                 \* hr.lock: TRUE while the mutex is locked
    sema,                 \* slots of the scheduler's semaphore that are taken
    now,                  \* utils.CurrentMillis()
    th,                   \* the goroutines: callers, refresh workers, push
    sched,                \* the goroutine running asyncUpdateService
    hist                  \* what ProcessServiceJson has done so far, per key

vars == <<hist, args, updateThreadNum, updateCacheWhenEmpty, serviceInfoMap,
          updateTimeMap, lock, sema, now, th, sched>>

----------------------------------------------------------------------------
(* Bounds of the model *)

NumCallers == 2
MaxWorkers == 2
MaxTime == 2

(* Program constants *)

Default_Update_Thread_Num == 20

----------------------------------------------------------------------------
(* Data *)

Names == {"A", "B"}
ClusterSet == {""}
HostLists == {<< >>, <<"h1", "h2">>, <<"h2", "h1">>}
CacheMillisSet == {0, 1}
ConfiguredThreadNums == {0, 1}

\* The wall clock is far past every freshness window when the reactor is
\* built: it starts just past the largest window and advances MaxTime times.
MaxWindow == CHOOSE w \in CacheMillisSet : \A v \in CacheMillisSet : v <= w
StartMillis == MaxWindow + 1

Services == [Name : Names, Clusters : ClusterSet, Hosts : HostLists,
             CacheMillis : CacheMillisSet]

\* the nil *model.Service, and the zero value of the thread-local slots
NoService == [Name |-> "-", Clusters |-> "", Hosts |-> << >>, CacheMillis |-> 0]

GetServiceCacheKey(name, clusters) == <<name, clusters>>

Keys == {GetServiceCacheKey(n, c) : n \in Names, c \in ClusterSet}

KeyOf(service) == GetServiceCacheKey(service.Name, service.Clusters)

\* raw payloads: the empty string, text that is no service, a service as JSON
EmptyPayload == [text |-> "", svc |-> NoService]
Garbage == [text |-> "garbage", svc |-> NoService]
ToJsonString(service) == [text |-> "json", svc |-> service]

JsonToService(result) == IF result.text = "json" THEN result.svc ELSE NoService

\* cache.ConcurrentMap
EmptyMap == [k \in {} |-> NoService]
Has(m, k) == k \in DOMAIN m
Set(m, k, v) == [x \in (DOMAIN m) \cup {k} |-> IF x = k THEN v ELSE m[x]]

\* (variant: the two lists compared as sets of instances)
DeepEqualAsSets(a, b) ==
    {a[i] : i \in 1..Len(a)} = {b[i] : i \in 1..Len(b)}

\* reflect.DeepEqual on two []model.Instance: same length, equal element by
\* element, in order
DeepEqual(a, b) ==
    /\ Len(a) = Len(b)
    /\ \A i \in 1..Len(a) : a[i] = b[i]

----------------------------------------------------------------------------
(* Threads *)

Callers == {<<"caller", i>> : i \in 1..NumCallers}
Workers == {<<"worker", i>> : i \in 1..MaxWorkers}
Pushers == {<<"push", 1>>}
Threads == Callers \cup Workers \cup Pushers

NoResult == [status |-> "none", svc |-> NoService]

\* a goroutine that is not running: all its locals are zero. Beside the
\* locals a thread records what its call did: the QueryList calls it issued,
\* how its last ProcessServiceJson ended ("dropped": nothing decoded,
\* "rejected": the acceptance policy refused it, "accepted"), and the calls
\* that ProcessServiceJson made to cache.WriteServicesToFile and to
\* subCallback.ServiceChanged. A caller also records whether, when its first
\* lookup missed, every other caller had missed the same key and was waiting
\* for the lock (herd).
Idle == [pc |-> "idle", name |-> "-", payload |-> EmptyPayload,
         service |-> NoService, ok |-> FALSE, oldHosts |-> << >>, ts |-> 0,
         queries |-> 0, outcome |-> "none", nPersist |-> 0, nNotify |-> 0,
         herd |-> FALSE, result |-> NoResult]

\* asyncUpdateService's loop state: the Items() copy still to visit, the
\* entry it is about to dispatch, and (a record of the tick) the keys it has
\* passed over as not due and whether this is the first pass of the loop
SchedIdle == [pc |-> "scan", items |-> EmptyMap, cur |-> NoService,
              skipped |-> {}, first |-> TRUE]

\* the record of the update pipeline: the keys whose snapshot line 79 has
\* stored, and per key the hosts last handed to subCallback.ServiceChanged
NoHistory == [written |-> {}, notified |-> [k \in {} |-> << >>]]

\* the QueryList results a registry can give for a service: an error, an
\* empty payload, text that does not decode, or a snapshot of that service
\* (with one of the given host lists and freshness windows)
QueryResults(name, hostLists, windows) ==
    {[err |-> TRUE, result |-> EmptyPayload]}
      \cup {[err |-> FALSE, result |-> p] : p \in {EmptyPayload, Garbage}}
      \cup {[err |-> FALSE, result |-> ToJsonString(s)] :
              s \in {x \in Services : /\ x.Name = name
                                      /\ x.Hosts \in hostLists
                                      /\ x.CacheMillis \in windows}}

\* what a push can deliver: text that does not decode, or a snapshot of any
\* of the given services
PushPayloads(names, hostLists, windows) ==
    {Garbage} \cup
    {ToJsonString(s) : s \in {x \in Services : /\ x.Name \in names
                                               /\ x.Hosts \in hostLists
                                               /\ x.CacheMillis \in windows}}

\* cache.ReadServicesFromFile: what the cache directory may hold at start:
\* nothing, or the snapshots of the given services written by an earlier run
SavedService(name) == [Name |-> name, Clusters |-> "",
                       Hosts |-> <<"h1", "h2">>, CacheMillis |-> 1]
DiskContents(names) ==
    {EmptyMap,
     [k \in {GetServiceCacheKey(n, "") : n \in names} |-> SavedService(k[1])]}

----------------------------------------------------------------------------
(* NewHostReactor *)

NewThreadNum(n) == IF n <= 0 THEN Default_Update_Thread_Num ELSE n

loadCacheFromDisk(serviceMap) ==
    IF serviceMap = EmptyMap THEN EmptyMap
    ELSE [k \in DOMAIN serviceMap |-> serviceMap[k]]

\* lines 30-51: the reactor built from arguments a, with serviceMap in the
\* cache directory
NewHostReactor(a, serviceMap) ==
    /\ args = [updateThreadNum |-> a.updateThreadNum,
               notLoadCacheAtStart |-> a.notLoadCacheAtStart,
               updateCacheWhenEmpty |-> a.updateCacheWhenEmpty,
               cacheDir |-> serviceMap]
    /\ updateThreadNum = NewThreadNum(a.updateThreadNum)
    /\ updateCacheWhenEmpty = a.updateCacheWhenEmpty
    /\ serviceInfoMap = IF a.notLoadCacheAtStart THEN EmptyMap
                        ELSE loadCacheFromDisk(serviceMap)
    /\ updateTimeMap = [k \in {} |-> 0]
    /\ lock = FALSE
    /\ sema = 0
    /\ now = StartMillis
    /\ th = [t \in Threads |-> Idle]
    /\ sched = SchedIdle
    /\ hist = NoHistory

Arguments(threadNums, whenEmpty) ==
    [updateThreadNum : threadNums, notLoadCacheAtStart : BOOLEAN,
     updateCacheWhenEmpty : whenEmpty]

----------------------------------------------------------------------------
(* utils.CurrentMillis: the clock advances on its own *)

Tick ==
    /\ now < StartMillis + MaxTime
    /\ now' = now + 1
    /\ UNCHANGED <<hist, args, updateThreadNum, updateCacheWhenEmpty, serviceInfoMap,
                   updateTimeMap, lock, sema, th, sched>>

----------------------------------------------------------------------------
(* ProcessServiceJson, run by thread t on th[t].payload *)

\* where a thread goes when ProcessServiceJson returns
AfterProcess(t) ==
    IF t \in Callers THEN "usn_unlock"
    ELSE IF t \in Workers THEN "release"
    ELSE "idle"

\* ProcessServiceJson returns; the thread keeps what the call decoded and
\* looked up (service, ok, oldHosts) as the record of its last call
Return(r, t, outcome) ==
    [r EXCEPT !.pc = AfterProcess(t), !.payload = EmptyPayload, !.ts = 0,
              !.outcome = outcome]

\* (variants: the flag read the wrong way round; the flag not read at all)
RejectedFlagInverted(service, ok) ==
    ok /\ updateCacheWhenEmpty /\ Len(service.Hosts) = 0

RejectedWhenEmpty(service, ok) ==
    ok /\ Len(service.Hosts) = 0

\* lines 64-77: decode, look the key up, apply the acceptance policy
Rejected(service, ok) ==
    ok /\ ~updateCacheWhenEmpty /\ Len(service.Hosts) = 0

\* (variant: a refused update without hosts drops the cached entry)
ProcessBeginEvict(t) ==
    /\ th[t].pc = "psj"
    /\ LET service == JsonToService(th[t].payload)
           cacheKey == KeyOf(service)
           ok == Has(serviceInfoMap, cacheKey)
           looked == [th[t] EXCEPT !.payload = EmptyPayload,
                        !.service = service, !.ok = ok,
                        !.oldHosts = IF ok THEN serviceInfoMap[cacheKey].Hosts
                                     ELSE << >>]
       IN  /\ th' = [th EXCEPT ![t] =
                 IF service = NoService THEN Return(@, t, "dropped")
                 ELSE IF Rejected(service, ok) THEN Return(looked, t, "rejected")
                 ELSE [looked EXCEPT !.pc = "psj_time"]]
           /\ serviceInfoMap' =
                 IF service # NoService /\ Rejected(service, ok)
                 THEN [x \in (DOMAIN serviceInfoMap) \ {cacheKey} |->
                         serviceInfoMap[x]]
                 ELSE serviceInfoMap
    /\ UNCHANGED <<hist, args, updateThreadNum, updateCacheWhenEmpty,
                   updateTimeMap, lock, sema, now, sched>>

ProcessBegin(t) ==
    /\ th[t].pc = "psj"
    /\ LET service == JsonToService(th[t].payload)
           cacheKey == KeyOf(service)
           ok == Has(serviceInfoMap, cacheKey)
           looked == [th[t] EXCEPT !.payload = EmptyPayload,
                        !.service = service, !.ok = ok,
                        !.oldHosts = IF ok THEN serviceInfoMap[cacheKey].Hosts
                                     ELSE << >>]
       IN  th' = [th EXCEPT ![t] =
                 IF service = NoService THEN Return(@, t, "dropped")
                 ELSE IF Rejected(service, ok) THEN Return(looked, t, "rejected")
                 ELSE [looked EXCEPT !.pc = "psj_time"]]
    /\ UNCHANGED <<hist, args, updateThreadNum, updateCacheWhenEmpty, serviceInfoMap,
                   updateTimeMap, lock, sema, now, sched>>

\* line 78, the argument: uint64(utils.CurrentMillis())
ProcessReadClock(t) ==
    /\ th[t].pc = "psj_time"
    /\ th' = [th EXCEPT ![t].pc = "psj_setTime", ![t].ts = now]
    /\ UNCHANGED <<hist, args, updateThreadNum, updateCacheWhenEmpty, serviceInfoMap,
                   updateTimeMap, lock, sema, now, sched>>

\* (variant: the timestamp is not stored)
ProcessSetTimeSkipped(t) ==
    /\ th[t].pc = "psj_setTime"
    /\ th' = [th EXCEPT ![t].pc = "psj_setInfo", ![t].ts = 0]
    /\ UNCHANGED <<hist, args, updateThreadNum, updateCacheWhenEmpty,
                   serviceInfoMap, updateTimeMap, lock, sema, now, sched>>

\* line 78, the call: hr.updateTimeMap.Set(cacheKey, ...)
ProcessSetTime(t) ==
    /\ th[t].pc = "psj_setTime"
    /\ updateTimeMap' = Set(updateTimeMap, KeyOf(th[t].service), th[t].ts)
    /\ th' = [th EXCEPT ![t].pc = "psj_setInfo", ![t].ts = 0]
    /\ UNCHANGED <<hist, args, updateThreadNum, updateCacheWhenEmpty, serviceInfoMap,
                   lock, sema, now, sched>>

\* line 79: hr.serviceInfoMap.Set(cacheKey, *service)
ProcessSetInfo(t) ==
    /\ th[t].pc = "psj_setInfo"
    /\ serviceInfoMap' = Set(serviceInfoMap, KeyOf(th[t].service), th[t].service)
    /\ th' = [th EXCEPT ![t].pc = "psj_change"]
    /\ hist' = [hist EXCEPT !.written = @ \cup {KeyOf(th[t].service)}]
    /\ UNCHANGED <<args, updateThreadNum, updateCacheWhenEmpty, updateTimeMap,
                   lock, sema, now, sched>>

\* (variant: every accepted update counts as a change)
ChangedAlways(ok, hosts, oldHosts) == TRUE

\* line 80: the change test
Changed(ok, hosts, oldHosts) == ~ok \/ (ok /\ ~DeepEqual(hosts, oldHosts))

\* lines 80-88: cache.WriteServicesToFile and subCallback.ServiceChanged
ProcessChange(t) ==
    /\ th[t].pc = "psj_change"
    /\ LET changed == Changed(th[t].ok, th[t].service.Hosts, th[t].oldHosts)
       IN  /\ th' = [th EXCEPT ![t] =
                 Return([@ EXCEPT !.nPersist = IF changed THEN @ + 1 ELSE @,
                                  !.nNotify = IF changed THEN @ + 1 ELSE @],
                        t, "accepted")]
           /\ hist' = IF changed
                      THEN [hist EXCEPT !.notified =
                              Set(@, KeyOf(th[t].service), th[t].service.Hosts)]
                      ELSE hist
    /\ UNCHANGED <<args, updateThreadNum, updateCacheWhenEmpty, serviceInfoMap,
                   updateTimeMap, lock, sema, now, sched>>

----------------------------------------------------------------------------
(* GetServiceInfo and updateServiceNow, run by a caller *)

\* (variant: the zero model.Service is returned in place of the one read)
FoundZero(service) == [status |-> "ok", svc |-> NoService]

Found(service) == [status |-> "ok", svc |-> service]
\* (variant: the zero model.Service is returned with a nil error)
FailedSilently == [status |-> "ok", svc |-> NoService]

Failed == [status |-> "error", svc |-> NoService]

\* lines 92-94: the first lookup; a hit returns the cached snapshot
GetServiceInfo(t, serviceName, clusters) ==
    /\ t \in Callers
    /\ th[t].pc = "idle"
    /\ LET key == GetServiceCacheKey(serviceName, clusters)
       IN  th' = [th EXCEPT ![t] =
                 IF Has(serviceInfoMap, key)
                 THEN [@ EXCEPT !.pc = "done", !.name = serviceName,
                                !.result = Found(serviceInfoMap[key])]
                 ELSE [@ EXCEPT !.pc = "usn_lock", !.name = serviceName,
                                !.herd = \A u \in Callers \ {t} :
                                           /\ th[u].pc = "usn_lock"
                                           /\ th[u].name = serviceName]]
    /\ UNCHANGED <<hist, args, updateThreadNum, updateCacheWhenEmpty, serviceInfoMap,
                   updateTimeMap, lock, sema, now, sched>>

\* (variant: the lock is taken without waiting for it)
UpdateLockNoWait(t) ==
    /\ th[t].pc = "usn_lock"
    /\ lock' = TRUE
    /\ th' = [th EXCEPT ![t].pc = "usn_check"]
    /\ UNCHANGED <<hist, args, updateThreadNum, updateCacheWhenEmpty, serviceInfoMap,
                   updateTimeMap, sema, now, sched>>

\* line 125: hr.lock.Lock()
UpdateLock(t) ==
    /\ th[t].pc = "usn_lock"
    /\ lock = FALSE
    /\ lock' = TRUE
    /\ th' = [th EXCEPT ![t].pc = "usn_check"]
    /\ UNCHANGED <<hist, args, updateThreadNum, updateCacheWhenEmpty, serviceInfoMap,
                   updateTimeMap, sema, now, sched>>

\* lines 126-127: the re-check under the lock; on a miss QueryList is called
UpdateCheck(t) ==
    /\ th[t].pc = "usn_check"
    /\ th' = [th EXCEPT ![t] =
             IF Has(serviceInfoMap, GetServiceCacheKey(@.name, ""))
             THEN [@ EXCEPT !.pc = "usn_unlock"]
             ELSE [@ EXCEPT !.pc = "usn_query", !.queries = @ + 1]]
    /\ UNCHANGED <<hist, args, updateThreadNum, updateCacheWhenEmpty, serviceInfoMap,
                   updateTimeMap, lock, sema, now, sched>>

\* lines 127-137: QueryList returns; on an error or an empty result
\* updateServiceNow returns at once (lines 131 and 135), else it calls
\* ProcessServiceJson
UpdateQueryReturn(t, r) ==
    /\ th[t].pc = "usn_query"
    /\ th' = [th EXCEPT ![t] =
             IF r.err \/ r.result = EmptyPayload
             THEN [@ EXCEPT !.pc = "gsi_reread"]
             ELSE [@ EXCEPT !.pc = "psj", !.payload = r.result]]
    /\ UNCHANGED <<hist, args, updateThreadNum, updateCacheWhenEmpty, serviceInfoMap,
                   updateTimeMap, lock, sema, now, sched>>

\* line 139: hr.lock.Unlock()
UpdateUnlock(t) ==
    /\ th[t].pc = "usn_unlock"
    /\ lock' = FALSE
    /\ th' = [th EXCEPT ![t].pc = "gsi_reread"]
    /\ UNCHANGED <<hist, args, updateThreadNum, updateCacheWhenEmpty, serviceInfoMap,
                   updateTimeMap, sema, now, sched>>

\* (variant: the value of the first lookup is kept after the fetch)
GetServiceInfoReturnStale(t) ==
    /\ th[t].pc = "gsi_reread"
    /\ th' = [th EXCEPT ![t].pc = "done",
                        ![t].result = [status |-> "error", svc |-> NoService]]
    /\ UNCHANGED <<hist, args, updateThreadNum, updateCacheWhenEmpty,
                   serviceInfoMap, updateTimeMap, lock, sema, now, sched>>

\* lines 96-101: the second lookup, after updateServiceNow returned
GetServiceInfoReturn(t) ==
    /\ th[t].pc = "gsi_reread"
    /\ LET key == GetServiceCacheKey(th[t].name, "")
       IN  th' = [th EXCEPT ![t].pc = "done",
                            ![t].result = IF Has(serviceInfoMap, key)
                                          THEN Found(serviceInfoMap[key])
                                          ELSE Failed]
    /\ UNCHANGED <<hist, args, updateThreadNum, updateCacheWhenEmpty, serviceInfoMap,
                   updateTimeMap, lock, sema, now, sched>>

----------------------------------------------------------------------------
(* The push receiver hands a pushed payload to ProcessServiceJson *)

Push(t, p) ==
    /\ t \in Pushers
    /\ th[t].pc = "idle"
    /\ th' = [th EXCEPT ![t] = [Idle EXCEPT !.pc = "psj", !.payload = p]]
    /\ UNCHANGED <<hist, args, updateThreadNum, updateCacheWhenEmpty, serviceInfoMap,
                   updateTimeMap, lock, sema, now, sched>>

----------------------------------------------------------------------------
(* asyncUpdateService, the refresh loop, and its workers *)

\* line 145: hr.serviceInfoMap.Items(), a copy of the map
SchedScan ==
    /\ sched.pc = "scan"
    /\ sched' = [sched EXCEPT !.pc = "iter", !.items = serviceInfoMap]
    /\ UNCHANGED <<hist, args, updateThreadNum, updateCacheWhenEmpty, serviceInfoMap,
                   updateTimeMap, lock, sema, now, th>>

\* (variant: a key with no timestamp counts as refreshed just now)
LastRefTimeMissingIsNow(service) ==
    IF Has(updateTimeMap, KeyOf(service)) THEN updateTimeMap[KeyOf(service)]
    ELSE now

\* lines 147-151: the staleness test of one entry
LastRefTime(service) ==
    IF Has(updateTimeMap, KeyOf(service)) THEN updateTimeMap[KeyOf(service)]
    ELSE 0

\* (variant: >= in place of >)
DueAtWindow(service) == now - LastRefTime(service) >= service.CacheMillis

Due(service) == now - LastRefTime(service) > service.CacheMillis

\* (variant: the pass ends at the first entry found due)
SchedVisitBreak ==
    /\ sched.pc = "iter"
    /\ \E k \in DOMAIN sched.items :
         LET service == sched.items[k]
             rest == [x \in (DOMAIN sched.items) \ {k} |-> sched.items[x]]
         IN  sched' = IF Due(service)
                      THEN [sched EXCEPT !.pc = "acquire", !.items = EmptyMap,
                                         !.cur = service]
                      ELSE [sched EXCEPT !.items = rest,
                                         !.skipped = @ \cup {k}]
    /\ UNCHANGED <<hist, args, updateThreadNum, updateCacheWhenEmpty,
                   serviceInfoMap, updateTimeMap, lock, sema, now, th>>

\* lines 145-151: the range loop visits the entries of the copy in any order
SchedVisit ==
    /\ sched.pc = "iter"
    /\ \E k \in DOMAIN sched.items :
         LET service == sched.items[k]
             rest == [x \in (DOMAIN sched.items) \ {k} |-> sched.items[x]]
         IN  sched' = IF Due(service)
                      THEN [sched EXCEPT !.pc = "acquire", !.items = rest,
                                         !.cur = service]
                      ELSE [sched EXCEPT !.items = rest,
                                         !.skipped = @ \cup {k}]
    /\ UNCHANGED <<hist, args, updateThreadNum, updateCacheWhenEmpty, serviceInfoMap,
                   updateTimeMap, lock, sema, now, th>>

\* the goroutine the next `go` statement starts
FreeWorker == CHOOSE w \in Workers : th[w].pc = "idle"

\* (variant: the goroutine is started without sema.Acquire())
SchedDispatchNoAcquire ==
    /\ sched.pc = "acquire"
    /\ \E w \in Workers : th[w].pc = "idle"
    /\ th' = [th EXCEPT ![FreeWorker] =
             [Idle EXCEPT !.pc = "aus_query", !.name = sched.cur.Name]]
    /\ sched' = [sched EXCEPT !.pc = "iter", !.cur = NoService]
    /\ UNCHANGED <<hist, args, updateThreadNum, updateCacheWhenEmpty, serviceInfoMap,
                   updateTimeMap, lock, sema, now>>

\* lines 152-156: sema.Acquire() blocks while every slot is taken; then the
\* goroutine starts and asyncUpdateServiceNow calls QueryList (line 164)
SchedDispatch ==
    /\ sched.pc = "acquire"
    /\ sema < updateThreadNum
    /\ \E w \in Workers : th[w].pc = "idle"
    /\ sema' = sema + 1
    /\ th' = [th EXCEPT ![FreeWorker] =
             [Idle EXCEPT !.pc = "aus_query", !.name = sched.cur.Name]]
    /\ sched' = [sched EXCEPT !.pc = "iter", !.cur = NoService]
    /\ UNCHANGED <<hist, args, updateThreadNum, updateCacheWhenEmpty, serviceInfoMap,
                   updateTimeMap, lock, now>>

\* line 159: the range loop is over; time.Sleep(1 * time.Second)
SchedSleep ==
    /\ sched.pc = "iter"
    /\ DOMAIN sched.items = {}
    /\ sched' = [SchedIdle EXCEPT !.first = FALSE]
    /\ UNCHANGED <<hist, args, updateThreadNum, updateCacheWhenEmpty, serviceInfoMap,
                   updateTimeMap, lock, sema, now, th>>

\* (variant: a failed fetch is recorded as a refresh of the key)
AsyncQueryReturnStamped(t, r) ==
    /\ th[t].pc = "aus_query"
    /\ th' = [th EXCEPT ![t] =
             IF r.err \/ r.result = EmptyPayload
             THEN [@ EXCEPT !.pc = "release"]
             ELSE [@ EXCEPT !.pc = "psj", !.payload = r.result]]
    /\ updateTimeMap' = IF r.err \/ r.result = EmptyPayload
                        THEN Set(updateTimeMap,
                                 GetServiceCacheKey(th[t].name, ""), now)
                        ELSE updateTimeMap
    /\ UNCHANGED <<hist, args, updateThreadNum, updateCacheWhenEmpty,
                   serviceInfoMap, lock, sema, now, sched>>

\* lines 164-174: QueryList returns to asyncUpdateServiceNow
AsyncQueryReturn(t, r) ==
    /\ th[t].pc = "aus_query"
    /\ th' = [th EXCEPT ![t] =
             IF r.err \/ r.result = EmptyPayload
             THEN [@ EXCEPT !.pc = "release"]
             ELSE [@ EXCEPT !.pc = "psj", !.payload = r.result]]
    /\ UNCHANGED <<hist, args, updateThreadNum, updateCacheWhenEmpty, serviceInfoMap,
                   updateTimeMap, lock, sema, now, sched>>

\* (variant: the goroutine ends without sema.Release())
AsyncEndNoRelease(t) ==
    /\ th[t].pc = "release"
    /\ th' = [th EXCEPT ![t] = Idle]
    /\ UNCHANGED <<hist, args, updateThreadNum, updateCacheWhenEmpty,
                   serviceInfoMap, updateTimeMap, lock, sema, now, sched>>

\* line 155: sema.Release(), and the goroutine ends
AsyncRelease(t) ==
    /\ th[t].pc = "release"
    /\ sema' = sema - 1
    /\ th' = [th EXCEPT ![t] = Idle]
    /\ UNCHANGED <<hist, args, updateThreadNum, updateCacheWhenEmpty, serviceInfoMap,
                   updateTimeMap, lock, now, sched>>

----------------------------------------------------------------------------

----------------------------------------------------------------------------
(* Specifications.  Each runs some of the goroutines of the reactor; the    *)
(* others stay idle, which an unfair scheduler allows.                      *)

ProcessServiceJson(S) ==
    \/ \E t \in S : ProcessBegin(t)
    \/ \E t \in S : ProcessReadClock(t)
    \/ \E t \in S : ProcessSetTime(t)
    \/ \E t \in S : ProcessSetInfo(t)
    \/ \E t \in S : ProcessChange(t)

OnDemand(S, names, hostLists, windows) ==
    \/ \E t \in S, n \in names, c \in ClusterSet : GetServiceInfo(t, n, c)
    \/ \E t \in S : UpdateLock(t)
    \/ \E t \in S : UpdateCheck(t)
    \/ \E t \in S : \E r \in QueryResults(th[t].name, hostLists, windows) :
         UpdateQueryReturn(t, r)
    \/ \E t \in S : UpdateUnlock(t)
    \/ \E t \in S : GetServiceInfoReturn(t)

Refresh(S, hostLists, windows) ==
    \/ SchedScan
    \/ SchedVisit
    \/ SchedDispatch
    \/ SchedSleep
    \/ \E t \in S : \E r \in QueryResults(th[t].name, hostLists, windows) :
         AsyncQueryReturn(t, r)
    \/ \E t \in S : AsyncRelease(t)

FullList == {<<"h1", "h2">>}
FirstCaller == {<<"caller", 1>>}

\* Cold lookups: every caller makes one GetServiceInfo call, for either
\* service, while pushes for service A arrive.
InitLookup ==
    \E a \in Arguments({1}, {FALSE}), serviceMap \in DiskContents({"A"}) :
        NewHostReactor(a, serviceMap)

NextLookup ==
    \/ OnDemand(Callers, Names, FullList, {1})
    \/ \E t \in Pushers : \E p \in PushPayloads({"A"}, FullList, {1}) : Push(t, p)
    \/ ProcessServiceJson(Callers \cup Pushers)

SpecLookup == InitLookup /\ [][NextLookup]_vars

\* The refresh loop and its workers, while the clock advances.
InitRefresh ==
    \E a \in Arguments(ConfiguredThreadNums, {FALSE}),
       serviceMap \in DiskContents(Names) :
        NewHostReactor(a, serviceMap)

NextRefresh ==
    \/ Tick
    \/ Refresh(Workers, FullList, {1})
    \/ ProcessServiceJson(Workers)

SpecRefresh == InitRefresh /\ [][NextRefresh]_vars

\* The update pipeline: pushes of every host list for service A race with
\* one on-demand fetch of it, while the clock advances.
InitUpdate ==
    \E a \in Arguments({1}, BOOLEAN), serviceMap \in DiskContents({"A"}) :
        NewHostReactor(a, serviceMap)

NextUpdate ==
    \/ Tick
    \/ OnDemand(FirstCaller, {"A"}, HostLists, {1})
    \/ \E t \in Pushers : \E p \in PushPayloads({"A"}, HostLists, {1}) : Push(t, p)
    \/ ProcessServiceJson(FirstCaller \cup Pushers)

SpecUpdate == InitUpdate /\ [][NextUpdate]_vars

\* The refresh loop under fair scheduling: the loop's goroutine and every
\* refresh goroutine keep running, and every QueryList call returns. The
\* clock stands still (time passing only makes more entries due).
FairRefresh ==
    /\ WF_vars(SchedScan)
    /\ WF_vars(SchedVisit)
    /\ WF_vars(SchedDispatch)
    /\ WF_vars(SchedSleep)
    /\ \A t \in Workers :
         /\ WF_vars(\E r \in QueryResults(th[t].name, FullList, {1}) :
                      AsyncQueryReturn(t, r))
         /\ WF_vars(ProcessBegin(t))
         /\ WF_vars(ProcessReadClock(t))
         /\ WF_vars(ProcessSetTime(t))
         /\ WF_vars(ProcessSetInfo(t))
         /\ WF_vars(ProcessChange(t))
         /\ WF_vars(AsyncRelease(t))

NextLoop ==
    \/ Refresh(Workers, FullList, {1})
    \/ ProcessServiceJson(Workers)

SpecRefreshFair == InitRefresh /\ [][NextLoop]_vars /\ FairRefresh

\* All three sources of payloads for service A at once: one on-demand
\* lookup, pushes, and the refresh loop with a single worker slot, while the
\* clock advances.
InitFetch ==
    \E a \in Arguments({1}, {FALSE}), serviceMap \in DiskContents({"A"}) :
        NewHostReactor(a, serviceMap)

NextFetch ==
    \/ Tick
    \/ OnDemand(FirstCaller, {"A"}, FullList, {1})
    \/ \E t \in Pushers : \E p \in PushPayloads({"A"}, FullList, {1}) : Push(t, p)
    \/ Refresh(Workers, FullList, {1})
    \/ ProcessServiceJson(FirstCaller \cup Pushers \cup Workers)

SpecFetch == InitFetch /\ [][NextFetch]_vars

----------------------------------------------------------------------------
(* Properties *)

\* thread t took the step
Stepped(t) == th'[t] # th[t]

\* t is inside updateServiceNow, between Lock and Unlock
Holding(t) ==
    th[t].pc \in {"usn_check", "usn_query", "psj", "psj_time", "psj_setTime",
                  "psj_setInfo", "psj_change", "usn_unlock"}

\* t is inside asyncUpdateServiceNow
Fetching(t) ==
    th[t].pc \in {"aus_query", "psj", "psj_time", "psj_setTime",
                  "psj_setInfo", "psj_change"}

\* ProcessServiceJson has returned to t's caller
Returned(t) == th[t].pc \in {"idle", "usn_unlock", "gsi_reread", "done", "release"}

HostSet(hosts) == {hosts[i] : i \in 1..Len(hosts)}

\* C1, as stated: when all the callers miss the same absent key together,
\* exactly one QueryList call is issued among them and they all return the
\* same result.
C1_ExactlyOneQuery ==
    ( /\ \E c \in Callers : th[c].herd
      /\ \A c \in Callers : th[c].pc = "done" )
    => /\ Cardinality({c \in Callers : th[c].queries > 0}) = 1
       /\ \A c, d \in Callers : th[c].result = th[d].result

\* C1, amended: at most one caller is inside updateServiceNow (so at most
\* one on-demand QueryList call is in flight) at any time, a caller issues at
\* most one QueryList call, and two callers of the same key both issue one
\* only if the fetch of one of them decoded nothing.
C1_OneFetchAtATime ==
    /\ Cardinality({t \in Callers : Holding(t)}) <= 1
    /\ \A c \in Callers : th[c].queries <= 1
    /\ \A c, d \in Callers :
         ( /\ c # d
           /\ th[c].name = th[d].name
           /\ th[c].queries = 1
           /\ th[d].queries = 1 )
         => (th[c].outcome = "dropped" \/ th[d].outcome = "dropped")

\* all the callers missed the same key together, one of them queried, and all
\* returned the same snapshot
C1_Witness ==
    /\ \E c \in Callers : th[c].herd
    /\ \A c \in Callers : th[c].pc = "done" /\ th[c].result.status = "ok"
    /\ Cardinality({c \in Callers : th[c].queries = 1}) = 1
    /\ \A c, d \in Callers : th[c].result = th[d].result

\* C2: whenever the guard is locked, a caller is inside updateServiceNow and
\* will unlock it; the guard is never left locked by a fetch that finished.
C2_GuardReleased ==
    lock => \E t \in Callers : Holding(t)

\* C3: with updateCacheWhenEmpty false, a candidate with no hosts for a key
\* cached with hosts is refused in one step: both maps keep their values,
\* ProcessServiceJson returns, and it made no WriteServicesToFile and no
\* ServiceChanged call.
C3_Case(t) ==
    LET service == JsonToService(th[t].payload)
    IN  /\ th[t].pc = "psj"
        /\ service # NoService
        /\ ~updateCacheWhenEmpty
        /\ Has(serviceInfoMap, KeyOf(service))
        /\ Len(serviceInfoMap[KeyOf(service)].Hosts) > 0
        /\ Len(service.Hosts) = 0

C3_RejectLeavesStore ==
    [][\A t \in Threads :
         (C3_Case(t) /\ Stepped(t))
         => /\ serviceInfoMap' = serviceInfoMap
            /\ updateTimeMap' = updateTimeMap
            /\ th'[t].pc = AfterProcess(t)
            /\ th'[t].outcome = "rejected"
            /\ th'[t].nPersist = 0
            /\ th'[t].nNotify = 0]_vars

C3_Witness ==
    \E t \in Threads :
        /\ Returned(t)
        /\ th[t].outcome = "rejected"
        /\ th[t].ok
        /\ Len(th[t].oldHosts) > 0
        /\ Len(th[t].service.Hosts) = 0
        /\ serviceInfoMap[KeyOf(th[t].service)].Hosts = th[t].oldHosts

\* C4, as stated: an accepted candidate whose hosts are the same set as the
\* previous snapshot's, in any order, causes no WriteServicesToFile and no
\* ServiceChanged call.
C4_OrderInsensitive ==
    [][\A t \in Threads :
         ( /\ th[t].pc = "psj_change"
           /\ Stepped(t)
           /\ th[t].ok
           /\ HostSet(th[t].service.Hosts) = HostSet(th[t].oldHosts) )
         => /\ th'[t].nPersist = th[t].nPersist
            /\ th'[t].nNotify = th[t].nNotify]_vars

\* C4, amended: the comparison is of the host lists in order. With a previous
\* snapshot whose host list equals the candidate's element by element,
\* neither call is made; with no previous snapshot, or a host list that
\* differs as a sequence (the same hosts in another order included), each
\* call is made once.
C4_OrderSensitive ==
    [][\A t \in Threads :
         (th[t].pc = "psj_change" /\ Stepped(t))
         => IF th[t].ok /\ th[t].service.Hosts = th[t].oldHosts
            THEN /\ th'[t].nPersist = th[t].nPersist
                 /\ th'[t].nNotify = th[t].nNotify
            ELSE /\ th'[t].nPersist = th[t].nPersist + 1
                 /\ th'[t].nNotify = th[t].nNotify + 1]_vars

\* the same hosts in another order were accepted and reported as a change
C4_Witness ==
    \E t \in Threads :
        /\ Returned(t)
        /\ th[t].outcome = "accepted"
        /\ th[t].ok
        /\ HostSet(th[t].service.Hosts) = HostSet(th[t].oldHosts)
        /\ th[t].service.Hosts # th[t].oldHosts
        /\ th[t].nPersist = 1
        /\ th[t].nNotify = 1

\* C5: the refresh timestamp of a key never decreases from one state to the
\* next.
C5_TimestampMonotonic ==
    [][\A k \in DOMAIN updateTimeMap :
         updateTimeMap'[k] >= updateTimeMap[k]]_vars

\* C6: at most one asyncUpdateServiceNow is running per key.
C6_OneFetchPerKey ==
    \A v, w \in Workers :
        (v # w /\ Fetching(v) /\ Fetching(w)) => th[v].name # th[w].name

\* C7: the refresh goroutines alive at any time are at most updateThreadNum,
\* which is the configured count, or 20 when that is <= 0.
C7_BoundedWorkers ==
    /\ Cardinality({w \in Workers : th[w].pc # "idle"}) <= updateThreadNum
    /\ updateThreadNum =
         IF args.updateThreadNum <= 0 THEN 20 ELSE args.updateThreadNum

\* one slot, taken, and the loop waits in Acquire with another entry due
C7_Witness ==
    /\ updateThreadNum = 1
    /\ sema = 1
    /\ sched.pc = "acquire"
    /\ \E w \in Workers : Fetching(w) /\ th[w].name # sched.cur.Name

\* C8: the loop goes on to dispatch an entry only when, at its staleness
\* test, now - lastRefTime (0 when the key has no timestamp) is strictly
\* greater than the entry's CacheMillis; otherwise it moves on to the next
\* entry; and a refresh goroutine starts only for the entry so chosen.
C8_Elapsed(service) ==
    now - (IF KeyOf(service) \in DOMAIN updateTimeMap
           THEN updateTimeMap[KeyOf(service)] ELSE 0)

C8_DispatchOnlyWhenDue ==
    [][/\ (sched.pc = "iter" /\ sched' # sched /\ DOMAIN sched.items # {})
          => \E k \in DOMAIN sched.items :
               /\ DOMAIN sched'.items = (DOMAIN sched.items) \ {k}
               /\ IF C8_Elapsed(sched.items[k]) > sched.items[k].CacheMillis
                  THEN /\ sched'.pc = "acquire"
                       /\ sched'.cur = sched.items[k]
                       /\ sched'.skipped = sched.skipped
                  ELSE /\ sched'.pc = "iter"
                       /\ sched'.cur = NoService
                       /\ sched'.skipped = sched.skipped \cup {k}
       /\ \A w \in Workers :
            (th[w].pc = "idle" /\ th'[w].pc # "idle")
            => /\ sched.pc = "acquire"
               /\ th'[w].name = sched.cur.Name]_vars

\* a tick that has visited every entry: one whose elapsed time equals its
\* window was passed over, another was dispatched
C8_Witness ==
    /\ sched.pc = "iter"
    /\ DOMAIN sched.items = {}
    /\ \E k \in sched.skipped :
         /\ Has(updateTimeMap, k)
         /\ now - updateTimeMap[k] = serviceInfoMap[k].CacheMillis
         /\ \A w \in Workers : th[w].name # k[1]
    /\ \E w \in Workers : Fetching(w)

\* C9: with updateCacheWhenEmpty true, a candidate with no hosts for a key
\* cached with hosts is accepted, line 79 stores it, and the call makes
\* exactly one WriteServicesToFile and one ServiceChanged call.
C9_Case(t) ==
    /\ updateCacheWhenEmpty
    /\ th[t].ok
    /\ Len(th[t].oldHosts) > 0
    /\ Len(th[t].service.Hosts) = 0

C9_EmptyUpdateAccepted ==
    [][\A t \in Threads :
         Stepped(t)
         => /\ ( LET service == JsonToService(th[t].payload)
                 IN  /\ th[t].pc = "psj"
                     /\ service # NoService
                     /\ updateCacheWhenEmpty
                     /\ Has(serviceInfoMap, KeyOf(service))
                     /\ Len(serviceInfoMap[KeyOf(service)].Hosts) > 0
                     /\ Len(service.Hosts) = 0 )
               => /\ th'[t].pc = "psj_time"
                  /\ C9_Case(t)'
            /\ (th[t].pc = "psj_setInfo" /\ C9_Case(t))
               => /\ Has(serviceInfoMap', KeyOf(th[t].service))
                  /\ serviceInfoMap'[KeyOf(th[t].service)] = th[t].service
            /\ (th[t].pc = "psj_change" /\ C9_Case(t))
               => /\ th'[t].outcome = "accepted"
                  /\ th'[t].nPersist = 1
                  /\ th'[t].nNotify = 1]_vars

C9_Witness ==
    \E t \in Threads :
        /\ Returned(t)
        /\ th[t].outcome = "accepted"
        /\ C9_Case(t)
        /\ th[t].nPersist = 1
        /\ th[t].nNotify = 1
        /\ serviceInfoMap[KeyOf(th[t].service)].Hosts = << >>

\* C10: an accepted update whose host list is identical to the one already
\* cached sets the key's timestamp to the time read at line 78 and stores the
\* snapshot again, and makes no WriteServicesToFile and no ServiceChanged
\* call.
C10_Case(t) ==
    /\ th[t].ok
    /\ th[t].service.Hosts = th[t].oldHosts

C10_UnchangedUpdate ==
    [][\A t \in Threads :
         (Stepped(t) /\ C10_Case(t))
         => /\ th[t].pc = "psj_time" => th'[t].ts = now
            /\ th[t].pc = "psj_setTime"
               => /\ Has(updateTimeMap', KeyOf(th[t].service))
                  /\ updateTimeMap'[KeyOf(th[t].service)] = th[t].ts
            /\ th[t].pc = "psj_setInfo"
               => /\ Has(serviceInfoMap', KeyOf(th[t].service))
                  /\ serviceInfoMap'[KeyOf(th[t].service)] = th[t].service
            /\ th[t].pc = "psj_change"
               => /\ th'[t].outcome = "accepted"
                  /\ th'[t].nPersist = 0
                  /\ th'[t].nNotify = 0]_vars

\* a second update with the same hosts moved the timestamp and told nobody
C10_Witness ==
    \E t \in Threads :
        /\ Returned(t)
        /\ th[t].outcome = "accepted"
        /\ C10_Case(t)
        /\ Len(th[t].service.Hosts) > 0
        /\ th[t].nPersist = 0
        /\ th[t].nNotify = 0
        /\ Has(updateTimeMap, KeyOf(th[t].service))
        /\ updateTimeMap[KeyOf(th[t].service)] = now
        /\ now > StartMillis

\* C11: the step in which a fetch fails (QueryList returned an error or an
\* empty payload to updateServiceNow or to asyncUpdateServiceNow, or
\* ProcessServiceJson decoded nothing from the payload) leaves both maps as
\* they were, makes no WriteServicesToFile and no ServiceChanged call, and
\* ends the fetch.
C11_Failing(t) ==
    \/ th[t].pc \in {"usn_query", "aus_query"} /\ th'[t].pc # "psj"
    \/ th[t].pc = "psj" /\ JsonToService(th[t].payload) = NoService

C11_FailedFetchLeavesStore ==
    [][\A t \in Threads :
         (Stepped(t) /\ C11_Failing(t))
         => /\ serviceInfoMap' = serviceInfoMap
            /\ updateTimeMap' = updateTimeMap
            /\ hist' = hist
            /\ th'[t].nPersist = th[t].nPersist
            /\ th'[t].nNotify = th[t].nNotify
            /\ th'[t].pc = IF th[t].pc = "usn_query" THEN "gsi_reread"
                           ELSE AfterProcess(t)]_vars

\* an on-demand fetch has failed and returned the error; later a scheduled
\* fetch of the key, by then cached with a timestamp, decoded nothing and
\* left the snapshot and the timestamp alone
C11_Witness ==
    /\ \E c \in Callers : /\ th[c].pc = "done"
                          /\ th[c].queries = 1
                          /\ th[c].outcome = "none"
                          /\ th[c].result = Failed
    /\ \E w \in Workers : /\ th[w].pc = "release"
                          /\ th[w].outcome = "dropped"
                          /\ th[w].nPersist = 0
                          /\ th[w].nNotify = 0
                          /\ Has(serviceInfoMap, GetServiceCacheKey(th[w].name, ""))
                          /\ Has(updateTimeMap, GetServiceCacheKey(th[w].name, ""))

\* C12, as stated: a caller that missed, queried once and got a payload that
\* decodes returns exactly the snapshot decoded from that payload.
C12_ReturnsFetched ==
    \A c \in Callers :
        ( /\ th[c].pc = "done"
          /\ th[c].queries >= 1
          /\ th[c].outcome \in {"accepted", "rejected"} )
        => /\ th[c].queries = 1
           /\ th[c].result.status = "ok"
           /\ th[c].result.svc = th[c].service

\* C12, amended: such a caller issues exactly one QueryList call; line 79
\* stores the snapshot decoded from the payload under the caller's key; and
\* the caller returns, with no error, the snapshot that is cached for the key
\* at its second lookup, which is the decoded one unless another update of
\* the key was stored in between (or cached the key first, so that the policy
\* refused the payload).
C12_ReturnsCached ==
    [][\A c \in Callers :
         Stepped(c)
         => LET key == GetServiceCacheKey(th[c].name, "")
            IN  /\ th'[c].queries <= 1
                /\ th[c].pc = "psj_setInfo"
                   => /\ KeyOf(th[c].service) = key
                      /\ serviceInfoMap'[key] = th[c].service
                /\ ( /\ th[c].pc = "gsi_reread"
                     /\ th[c].queries = 1
                     /\ th[c].outcome \in {"accepted", "rejected"} )
                   => /\ Has(serviceInfoMap, key)
                      /\ th'[c].pc = "done"
                      /\ th'[c].queries = 1
                      /\ th'[c].result.status = "ok"
                      /\ th'[c].result.svc = serviceInfoMap[key]]_vars

\* a cold lookup fetched a snapshot with hosts and returned it
C12_Witness ==
    \E c \in Callers :
        /\ th[c].pc = "done"
        /\ th[c].queries = 1
        /\ ~th[c].ok
        /\ th[c].outcome = "accepted"
        /\ Len(th[c].service.Hosts) > 0
        /\ th[c].result.status = "ok"
        /\ th[c].result.svc = th[c].service
        /\ th[c].service.Name = th[c].name

\* C13: GetServiceInfo returns only from its first lookup, when that hits,
\* or from its second lookup; a hit at the first lookup returns the cached
\* snapshot with no error and no QueryList call; the second lookup returns
\* the error exactly when the key is absent and the cached snapshot otherwise.
C13_ErrorIffAbsent ==
    [][\A c \in Callers :
         Stepped(c)
         => LET key == GetServiceCacheKey(th'[c].name, "")
            IN  /\ th'[c].pc = "done" => th[c].pc \in {"idle", "gsi_reread"}
                /\ th'[c].pc # "done" => th'[c].result.status = "none"
                /\ (th[c].pc = "idle" /\ Has(serviceInfoMap, key))
                   => /\ th'[c].pc = "done"
                      /\ th'[c].queries = 0
                      /\ th'[c].result.status = "ok"
                      /\ th'[c].result.svc = serviceInfoMap[key]
                /\ th[c].pc = "gsi_reread"
                   => /\ th'[c].pc = "done"
                      /\ (th'[c].result.status = "error")
                           <=> ~Has(serviceInfoMap, key)
                      /\ Has(serviceInfoMap, key)
                           => /\ th'[c].result.status = "ok"
                              /\ th'[c].result.svc = serviceInfoMap[key]]_vars

\* a lookup of a cached key returned it without a query, after a push that
\* decoded nothing and while a scheduled fetch of the key has just failed
C13_Witness ==
    \E c \in Callers, w \in Workers, p \in Pushers :
        /\ th[c].pc = "done"
        /\ th[c].queries = 0
        /\ th[c].result.status = "ok"
        /\ th[c].result.svc = serviceInfoMap[GetServiceCacheKey(th[c].name, "")]
        /\ th[w].pc = "release"
        /\ th[w].outcome = "none"
        /\ th[w].name = th[c].name
        /\ th[p].outcome = "dropped"

\* the snapshots NewHostReactor read from the cache directory
BootstrapLoaded == IF args.notLoadCacheAtStart THEN EmptyMap ELSE args.cacheDir

\* C14: when the refresh loop starts its first pass, serviceInfoMap holds
\* exactly the snapshots read from the cache directory (none when loading is
\* disabled or the directory is empty) and updateTimeMap is empty; a loaded
\* key keeps its loaded snapshot for as long as it has no timestamp; and in
\* the first pass every entry visited is a loaded one without a timestamp,
\* is found due, and a refresh goroutine is started for it.
C14_BootstrapDue ==
    [][/\ (sched.first /\ sched.pc = "scan")
          => /\ serviceInfoMap = BootstrapLoaded
             /\ DOMAIN updateTimeMap = {}
       /\ \A k \in DOMAIN BootstrapLoaded :
            /\ Has(serviceInfoMap, k)
            /\ ~Has(updateTimeMap, k) => serviceInfoMap[k] = BootstrapLoaded[k]
       /\ ( /\ sched.first
            /\ sched.pc = "iter"
            /\ sched' # sched
            /\ DOMAIN sched.items # {} )
          => \E k \in DOMAIN sched.items :
               /\ DOMAIN sched'.items = (DOMAIN sched.items) \ {k}
               /\ k \in DOMAIN BootstrapLoaded
               /\ ~Has(updateTimeMap, k)
               /\ sched'.pc = "acquire"
               /\ sched'.cur = BootstrapLoaded[k]
       /\ (sched.first /\ sched.pc = "acquire" /\ sched' # sched)
          => \E w \in Workers :
               /\ th[w].pc = "idle"
               /\ th'[w].pc = "aus_query"
               /\ th'[w].name = sched.cur.Name]_vars

\* the first pass is over and a scheduled fetch is running for each of the
\* loaded snapshots
C14_Witness ==
    /\ ~args.notLoadCacheAtStart
    /\ Cardinality(DOMAIN args.cacheDir) = 2
    /\ sched.first
    /\ sched.pc = "iter"
    /\ DOMAIN sched.items = {}
    /\ \A k \in DOMAIN args.cacheDir :
         \E w \in Workers : th[w].pc = "aus_query" /\ th[w].name = k[1]

\* C15, as stated: in every state a key has a timestamp exactly when line 79
\* has stored a snapshot for it at least once.
C15_TimestampIffWritten ==
    \A k \in Keys : Has(updateTimeMap, k) <=> k \in hist.written

\* C15, amended: a key whose snapshot line 79 has stored has a timestamp; a
\* key has a timestamp without such a snapshot only while a
\* ProcessServiceJson call for it is between its two stores (lines 78 and
\* 79); and a key cached without ever being stored by line 79 is a loaded
\* one, still holding its loaded snapshot.
C15_TimestampBeforeSnapshot ==
    \A k \in Keys :
        /\ k \in hist.written
           => Has(updateTimeMap, k) /\ Has(serviceInfoMap, k)
        /\ (Has(updateTimeMap, k) /\ k \notin hist.written)
           => \E t \in Threads : /\ th[t].pc = "psj_setInfo"
                                 /\ KeyOf(th[t].service) = k
        /\ (Has(serviceInfoMap, k) /\ k \notin hist.written)
           => /\ k \in DOMAIN BootstrapLoaded
              /\ serviceInfoMap[k] = BootstrapLoaded[k]

\* one loaded key has been refreshed and has a timestamp, the other has
\* not and has none; no update is in progress
C15_Witness ==
    /\ \A t \in Threads : th[t].pc = "idle"
    /\ \E j, k \in Keys :
         /\ j \in hist.written
         /\ Has(updateTimeMap, j)
         /\ Has(serviceInfoMap, k)
         /\ k \notin hist.written
         /\ ~Has(updateTimeMap, k)

\* C16: no step removes a key from serviceInfoMap.
C16_NoEviction ==
    [][\A k \in DOMAIN serviceInfoMap : Has(serviceInfoMap', k)]_vars

\* a key cached by an on-demand fetch is still cached after a push for it
\* was refused
C16_Witness ==
    \E c \in Callers, p \in Pushers :
        /\ th[c].outcome = "accepted"
        /\ ~th[c].ok
        /\ th[p].pc = "idle"
        /\ th[p].outcome = "rejected"
        /\ Has(serviceInfoMap, KeyOf(th[c].service))

\* C17, as stated: whenever slots are held, the number of held slots
\* eventually returns to 0.
C17_SlotsReturnToZero == (sema > 0) ~> (sema = 0)

\* C17, amended: the slots held are exactly those of the refresh goroutines
\* that are running; every refresh goroutine eventually ends and releases its
\* slot, whatever its fetch returned; and the loop never waits in Acquire
\* forever.
C17_SlotReleased ==
    /\ [](sema = Cardinality({w \in Workers : th[w].pc # "idle"}))
    /\ \A w \in Workers : (th[w].pc # "idle") ~> (th[w].pc = "idle")
    /\ (sched.pc = "acquire") ~> (sched.pc # "acquire")

\* the only slot is held by a goroutine whose fetch has failed and that is
\* about to release it, while the loop waits in Acquire
C17_Witness ==
    /\ updateThreadNum = 1
    /\ sema = 1
    /\ sched.pc = "acquire"
    /\ \E w \in Workers : th[w].pc = "release" /\ th[w].outcome = "none"

\* C19: under fair scheduling, a cached entry that is due and has no refresh
\* goroutine running for it eventually has one started for it.
C19_Unattended(k) ==
    /\ Has(serviceInfoMap, k)
    /\ now - (IF Has(updateTimeMap, k) THEN updateTimeMap[k] ELSE 0)
         > serviceInfoMap[k].CacheMillis
    /\ \A w \in Workers : th[w].pc = "idle" \/ th[w].name # k[1]

C19_DueEventuallyDispatched ==
    \A k \in Keys :
        C19_Unattended(k)
        ~> (\E w \in Workers : th[w].pc = "aus_query" /\ th[w].name = k[1])

\* two entries are due and there is one slot: the fetch of one is running,
\* the other waits for the slot
C19_Witness ==
    /\ updateThreadNum = 1
    /\ sema = 1
    /\ sched.pc = "acquire"
    /\ C19_Unattended(KeyOf(sched.cur))
    /\ \E w \in Workers :
         /\ th[w].pc = "aus_query"
         /\ th[w].name # sched.cur.Name
         /\ ~Has(updateTimeMap, GetServiceCacheKey(th[w].name, ""))

\* C18: once every ProcessServiceJson call has returned, the hosts last
\* handed to subCallback.ServiceChanged for a key that was not loaded at start
\* are the hosts of the snapshot cached for that key.
C18_NotifierAgreesWithStore ==
    (\A t \in Threads : Returned(t))
    => \A k \in (DOMAIN hist.notified) \ (DOMAIN BootstrapLoaded) :
         /\ Has(serviceInfoMap, k)
         /\ hist.notified[k] = serviceInfoMap[k].Hosts

\* C20, as stated: a caller whose on-demand QueryList returned an error or an
\* empty payload returns the error, and its return leaves both maps as they
\* are.
C20_FailedFetchReturnsError ==
    [][\A c \in Callers :
         ( /\ Stepped(c)
           /\ th[c].pc = "gsi_reread"
           /\ th[c].queries = 1
           /\ th[c].outcome = "none" )
         => /\ th'[c].result.status = "error"
            /\ serviceInfoMap' = serviceInfoMap
            /\ updateTimeMap' = updateTimeMap]_vars

\* C20, amended: the failed QueryList and the return that follows it leave
\* both maps as they are, and the caller returns the error if the key is
\* still absent at its second lookup; if another update has cached the key in
\* the meantime, it returns that snapshot with no error. The failed fetch
\* returns with the lock still locked.
C20_FailedFetchReturn ==
    [][\A c \in Callers :
         Stepped(c)
         => LET key == GetServiceCacheKey(th[c].name, "")
            IN  /\ (th[c].pc = "usn_query" /\ th'[c].pc # "psj")
                   => /\ th'[c].pc = "gsi_reread"
                      /\ th'[c].outcome = "none"
                      /\ lock /\ lock'
                      /\ serviceInfoMap' = serviceInfoMap
                      /\ updateTimeMap' = updateTimeMap
                /\ ( /\ th[c].pc = "gsi_reread"
                     /\ th[c].queries = 1
                     /\ th[c].outcome = "none" )
                   => /\ serviceInfoMap' = serviceInfoMap
                      /\ updateTimeMap' = updateTimeMap
                      /\ th'[c].pc = "done"
                      /\ IF Has(serviceInfoMap, key)
                         THEN /\ th'[c].result.status = "ok"
                              /\ th'[c].result.svc = serviceInfoMap[key]
                         ELSE /\ th'[c].result.status = "error"
                              /\ th'[c].result.svc = NoService]_vars

\* a cold lookup queried once, the query failed, and the caller got the error
\* with nothing cached for the key
C20_Witness ==
    \E c \in Callers :
        /\ th[c].pc = "done"
        /\ th[c].queries = 1
        /\ th[c].outcome = "none"
        /\ th[c].result.status = "error"
        /\ ~Has(serviceInfoMap, GetServiceCacheKey(th[c].name, ""))
        /\ lock
        /\ ~Has(updateTimeMap, GetServiceCacheKey(th[c].name, ""))

====
